---- MODULE Spec2Model ----
(***************************************************************************)
(* The naming engine of mgear core (scripts/mgear/core/naming.py): tokens, *)
(* rules, the module-level registries _tokens and _rules, solve and parse. *)
(*                                                                         *)
(* Representation of the Python values.                                    *)
(*   - A str is a sequence of symbols.  The symbol "_" is the character    *)
(*     the names are joined and split on; every other symbol is a          *)
(*     non-empty run of characters without "_".  "foo_L" is                *)
(*     <<"foo", "_", "L">>, "" is <<>>.  Two runs are never adjacent, so   *)
(*     equal strings have equal representations.                           *)
(*   - None is a value no str of the input sets equals.                    *)
(*   - A dict of the interpreter the module is written for (Python 2:      *)
(*     iteritems, values()[0]) iterates in an order fixed by the hashes of *)
(*     its keys, not by the order of insertion.  A dict is the sequence of *)
(*     its <<key, value>> pairs in iteration order; a new key enters at a  *)
(*     position the model leaves open, an existing key keeps its place.    *)
(*   - An object is the record of its __dict__, and cls, the name of its   *)
(*     class.                                                              *)
(*   - The outcome of a call is [exc, val]: the exception raised, or ""    *)
(*     and the value returned.                                             *)
(***************************************************************************)
EXTENDS Integers, Sequences, FiniteSets, TLC

VARIABLES
    _tokens,    \* naming._tokens: token name -> Token
    _rules,     \* naming._rules: rule name or "_active" -> Rule, str or None
    inserted,   \* history: token name -> the keys of its items, in the order add_item first saw them
    defaulted,  \* history: the names of the tokens set_default was called on
    files,      \* the directory of a session: file name -> what the file holds
    last        \* history: the last call, its arguments and its outcome

vars == <<_tokens, _rules, inserted, defaulted, files, last>>

----------------------------------------------------------------------------
(* Values *)

None == <<"NoneType">>

Str(c) == <<c>>

Return(v) == [exc |-> "", val |-> v]

Raise(e) == [exc |-> e, val |-> None]

\* str(v), as "{...}".format applies it to a value
str(v) == IF v = None THEN Str("None") ELSE v

----------------------------------------------------------------------------
(* dict *)

EmptyDict == <<>>

DictKeys(d) == {d[i][1] : i \in 1..Len(d)}

DictIndex(d, k) == CHOOSE i \in 1..Len(d) : d[i][1] = k

\* d.get(k)
DictGet(d, k) == IF k \in DictKeys(d) THEN d[DictIndex(d, k)][2] ELSE None

\* d[k] = v; a new key lands at position p of the iteration order
DictSet(d, k, v, p) ==
    IF k \in DictKeys(d)
    THEN [d EXCEPT ![DictIndex(d, k)] = <<k, v>>]
    ELSE LET q == IF p > Len(d) + 1 THEN Len(d) + 1 ELSE p
         IN  SubSeq(d, 1, q - 1) \o <<(<<k, v>>)>> \o SubSeq(d, q, Len(d))

\* a function with one more (or one changed) entry
Put(f, k, v) == [x \in DOMAIN f \cup {k} |-> IF x = k THEN v ELSE f[x]]

\* a function without the entries of ks
Drop(f, ks) == [x \in DOMAIN f \ ks |-> f[x]]

Empty == [x \in {} |-> None]

----------------------------------------------------------------------------
(* class Serializable *)

CLASSNAME == "_Serializable_classname"
VERSION == "_Serializable_version"

\* the attributes of an object: the keys of its __dict__
Attributes(self) == DOMAIN self \ {"cls"}

\* Serializable.data: a copy of __dict__ and the two tags
Serializable_data(self) ==
    [k \in Attributes(self) \cup {CLASSNAME, VERSION} |->
        IF k = CLASSNAME THEN self.cls
        ELSE IF k = VERSION THEN "1.0"
        ELSE self[k]]

\* a from_data that does not look at the classname
Serializable_from_data_unguarded(cls, new, data) ==
    LET rest == Drop(data, {CLASSNAME, VERSION})
    IN  [k \in DOMAIN new \cup DOMAIN rest |->
            IF k \in DOMAIN rest THEN rest[k] ELSE new[k]]

\* a from_data that builds cls(data["_name"]) and leaves the rest of data
Serializable_from_data_name_only(cls, new, data) ==
    IF (IF CLASSNAME \in DOMAIN data THEN data[CLASSNAME] ELSE "") # cls
    THEN [cls |-> "NoneType"]
    ELSE [new EXCEPT !._name = data._name]

\* Serializable.from_data, for the class cls whose __init__(None) gives
\* the object new: None on another classname; else the tags are deleted
\* from data and __dict__ is updated with what is left
Serializable_from_data(cls, new, data) ==
    IF (IF CLASSNAME \in DOMAIN data THEN data[CLASSNAME] ELSE "") # cls
    THEN [cls |-> "NoneType"]
    ELSE LET rest == Drop(data, {CLASSNAME, VERSION})
         IN  [k \in DOMAIN new \cup DOMAIN rest |->
                IF k \in DOMAIN rest THEN rest[k] ELSE new[k]]

\* the mapping data after from_data(data) of the class cls: the tags are
\* deleted from the mapping that was passed, not from a copy
Serializable_from_data_mapping(cls, data) ==
    IF (IF CLASSNAME \in DOMAIN data THEN data[CLASSNAME] ELSE "") # cls
    THEN data
    ELSE Drop(data, {CLASSNAME, VERSION})

----------------------------------------------------------------------------
(* class Token *)

\* Token.__init__
Token(name) ==
    [cls |-> "Token", _name |-> name, _default |-> None, _items |-> EmptyDict]

\* Token.from_data
Token_from_data(data) == Serializable_from_data("Token", Token(None), data)

\* Token.set_default
Token_set_default(self, value) == [self EXCEPT !._default = value]

\* Token.default: the value returned and the token afterwards (the
\* computed default is stored in _default)
Token_default(self) ==
    LET this == IF self._default = None /\ Len(self._items) # 0
                THEN [self EXCEPT !._default = self._items[1][2]]
                ELSE self
    IN  [ret |-> this._default, self |-> this]

\* Token.add_item
Token_add_item(self, name, value, p) ==
    [self EXCEPT !._items = DictSet(self._items, name, value, p)]

\* an is_required that looks at _default as it is stored
Token_is_required_stored(self) == [ret |-> (self._default = None), self |-> self]

\* Token.is_required
Token_is_required(self) ==
    LET d == Token_default(self)
    IN  [ret |-> (d.ret = None), self |-> d.self]

\* a Token.solve that takes the first item for a missing name, whatever
\* _default holds
Token_solve_first_item(self, name) ==
    IF name = None
    THEN [ret |-> IF Len(self._items) # 0 THEN self._items[1][2] ELSE self._default,
          self |-> self]
    ELSE [ret |-> DictGet(self._items, name), self |-> self]

\* Token.solve
Token_solve(self, name) ==
    IF name = None
    THEN Token_default(self)
    ELSE [ret |-> DictGet(self._items, name), self |-> self]

\* a Token.parse that compares the keys, not the values, with `value`
Token_parse_keys(self, value) ==
    IF value \in DictKeys(self._items) THEN value ELSE None

\* Token.parse: the first key of the iteration whose value is `value`;
\* the loop falls through to an implicit None
Token_parse(self, value) ==
    LET hits == {i \in 1..Len(self._items) : self._items[i][2] = value}
    IN  IF hits = {} THEN None
        ELSE self._items[CHOOSE i \in hits : \A j \in hits : i <= j][1]

----------------------------------------------------------------------------
(* class Rule *)

\* Rule.__init__; cls tells the objects _rules holds apart
Rule(name) == [cls |-> "Rule", _name |-> name, _fields |-> <<>>]

\* Rule.from_data
Rule_from_data(data) == Serializable_from_data("Rule", Rule(None), data)

\* what _rules["_active"] holds: a rule name, or None
StrVal(s) == [cls |-> "str", _name |-> s, _fields |-> <<>>]

NoneVal == [cls |-> "NoneType", _name |-> None, _fields |-> <<>>]

\* Rule.fields
Rule_fields(self) == self._fields

\* Rule.add_fields
Rule_add_fields(self, token_names) ==
    [self EXCEPT !._fields = self._fields \o token_names]

\* a Rule._pattern that joins the fields last to first
Rule__pattern_reversed(self) ==
    IF Len(self._fields) = 0
    THEN <<(<<"fld", <<>>>>)>>
    ELSE [i \in 1..(2 * Len(self._fields) - 1) |->
            IF i % 2 = 1
            THEN <<"fld", self._fields[Len(self._fields) + 1 - (i + 1) \div 2]>>
            ELSE <<"lit", Str("_")>>]

\* Rule._pattern: "{" + "}_{".join(fields) + "}", as the sequence of its
\* parts: <<"fld", f>> is the replacement field {f}, <<"lit", "_">> the
\* text between two of them.  With no fields the pattern is "{}", one
\* replacement field with an empty name.
Rule__pattern(self) ==
    IF Len(self._fields) = 0
    THEN <<(<<"fld", <<>>>>)>>
    ELSE [i \in 1..(2 * Len(self._fields) - 1) |->
            IF i % 2 = 1 THEN <<"fld", self._fields[(i + 1) \div 2]>>
            ELSE <<"lit", Str("_")>>]

\* str.format(**values) on a pattern: a replacement field with an empty
\* name asks for a positional argument, and none is passed
RECURSIVE format(_, _)
format(pattern, values) ==
    IF Len(pattern) = 0 THEN Return(<<>>)
    ELSE LET part == Head(pattern)
             rest == format(Tail(pattern), values)
         IN  IF part[1] = "lit"
             THEN IF rest.exc # "" THEN rest ELSE Return(part[2] \o rest.val)
             ELSE IF part[2] = <<>> THEN Raise("IndexError")
             ELSE IF part[2] \notin DOMAIN values THEN Raise("KeyError")
             ELSE IF rest.exc # "" THEN rest
             ELSE Return(str(values[part[2]]) \o rest.val)

\* Rule.solve
Rule_solve(self, values) == format(Rule__pattern(self), values)

\* str.split("_"): the pieces between the delimiters, at least one
RECURSIVE split(_)
split(s) ==
    IF \A i \in 1..Len(s) : s[i] # "_" THEN <<s>>
    ELSE LET i == CHOOSE i \in 1..Len(s) :
                      s[i] = "_" /\ \A j \in 1..(i - 1) : s[j] # "_"
         IN  <<SubSeq(s, 1, i - 1)>> \o split(SubSeq(s, i + 1, Len(s)))

\* split_name[i], i counted from 0
split_name_item(split_name, i) ==
    IF i >= Len(split_name) THEN Raise("IndexError") ELSE Return(split_name[i + 1])

\* the loop of Rule.parse from field n on: retval so far, the tokens (whose
\* _default is_required may set), and the exception that ends it
RECURSIVE Rule_parse_loop(_, _, _, _, _)
Rule_parse_loop(fields, n, split_name, retval, toks) ==
    IF n > Len(fields) THEN [ret |-> Return(retval), tokens |-> toks]
    ELSE LET f == fields[n]
             piece == split_name_item(split_name, n - 1)
         IN
         IF piece.exc # "" THEN [ret |-> Raise(piece.exc), tokens |-> toks]
         ELSE IF f \notin DOMAIN toks THEN [ret |-> Raise("KeyError"), tokens |-> toks]
         ELSE LET value == piece.val
                  req == Token_is_required(toks[f])
                  toks1 == [toks EXCEPT ![f] = req.self]
              IN  IF req.ret
                  THEN Rule_parse_loop(fields, n + 1, split_name,
                                       Put(retval, f, value), toks1)
                  ELSE Rule_parse_loop(fields, n + 1, split_name,
                                       Put(retval, f, Token_parse(toks1[f], value)), toks1)

\* Rule.parse
Rule_parse(self, name, toks) ==
    Rule_parse_loop(Rule_fields(self), 1, split(name), Empty, toks)

----------------------------------------------------------------------------
(* the registry of rules *)

ACTIVE == <<"_", "active">>

\* has_rule
has_rule(rs, name) == name \in DOMAIN rs

\* active_rule: k = _rules["_active"]; return _rules.get(k)
active_rule(rs) ==
    IF ACTIVE \notin DOMAIN rs THEN Raise("KeyError")
    ELSE LET k == rs[ACTIVE]
         IN  IF k.cls = "str" /\ k._name \in DOMAIN rs
             THEN [exc |-> "", val |-> rs[k._name]]
             ELSE [exc |-> "", val |-> NoneVal]

\* set_active_rule
set_active_rule(rs, name) ==
    IF ~has_rule(rs, name) THEN [ret |-> Return(FALSE), rules |-> rs]
    ELSE [ret |-> Return(TRUE), rules |-> Put(rs, ACTIVE, StrVal(name))]

\* an add_rule that makes every rule it adds the active one
add_rule_always_active(rs, name, fields) ==
    LET rule == Rule_add_fields(Rule(name), fields)
        rs1 == Put(rs, name, rule)
    IN  [ret |-> Return(rule), rules |-> set_active_rule(rs1, name).rules]

\* add_rule
add_rule(rs, name, fields) ==
    LET rule == Rule_add_fields(Rule(name), fields)
        rs1 == Put(rs, name, rule)
        act == active_rule(rs1)
    IN  IF act.exc # "" THEN [ret |-> Raise(act.exc), rules |-> rs1]
        ELSE IF act.val = NoneVal
        THEN [ret |-> Return(rule), rules |-> set_active_rule(rs1, name).rules]
        ELSE [ret |-> Return(rule), rules |-> rs1]

\* flush_rules
flush_rules(rs) == [ret |-> Return(TRUE), rules |-> Put(Empty, ACTIVE, NoneVal)]

\* remove_rule
remove_rule(rs, name) ==
    IF has_rule(rs, name)
    THEN [ret |-> Return(TRUE), rules |-> Drop(rs, {name})]
    ELSE [ret |-> Return(FALSE), rules |-> rs]

\* get_rule
get_rule(rs, name) == IF name \in DOMAIN rs THEN rs[name] ELSE NoneVal

----------------------------------------------------------------------------
(* the registry of tokens *)

\* the loop of add_token over kwds, a dict: kw is its pairs in iteration
\* order.  _items is a dict of the same keys and iterates as kwds does;
\* every order of the two arises as an order of kw.
RECURSIVE add_token_loop(_, _, _)
add_token_loop(token, kw, n) ==
    IF n > Len(kw) THEN token
    ELSE IF kw[n][1] = Str("default")
    THEN add_token_loop(Token_set_default(token, kw[n][2]), kw, n + 1)
    ELSE add_token_loop(Token_add_item(token, kw[n][1], kw[n][2], n), kw, n + 1)

\* add_token
add_token(toks, name, kw) ==
    LET token == add_token_loop(Token(name), kw, 1)
    IN  [ret |-> Return(token), tokens |-> Put(toks, name, token)]

\* flush_tokens
flush_tokens(toks) == [ret |-> Return(TRUE), tokens |-> Empty]

\* has_token
has_token(toks, name) == name \in DOMAIN toks

\* remove_token
remove_token(toks, name) ==
    IF has_token(toks, name)
    THEN [ret |-> Return(TRUE), tokens |-> Drop(toks, {name})]
    ELSE [ret |-> Return(FALSE), tokens |-> toks]

----------------------------------------------------------------------------
(* solve and parse *)

\* rule.fields(), rule what active_rule returned
rule_fields(rule) ==
    IF rule.cls # "Rule" THEN Raise("AttributeError") ELSE Return(Rule_fields(rule))

\* an args[i] that is None past the end of args
args_item_padded(args, i) ==
    IF i >= Len(args) THEN Return(None) ELSE Return(args[i + 1])

\* an args[0] where args[i] is meant
args_item_first(args, i) ==
    IF Len(args) = 0 THEN Raise("IndexError") ELSE Return(args[1])

\* args[i], i counted from 0
args_item(args, i) ==
    IF i >= Len(args) THEN Raise("IndexError") ELSE Return(args[i + 1])

\* kwds.get(f), kwds a function from names to values
KwGet(kwds, f) == IF f \in DOMAIN kwds THEN kwds[f] ELSE None

\* the loop of solve from field n on: i positional arguments used, the
\* values so far, the tokens (whose _default is_required and solve may set)
RECURSIVE solve_loop(_, _, _, _, _, _, _)
solve_loop(fields, n, i, values, toks, args, kwds) ==
    IF n > Len(fields) THEN [exc |-> "", values |-> values, tokens |-> toks]
    ELSE LET f == fields[n] IN
         IF f \notin DOMAIN toks
         THEN [exc |-> "KeyError", values |-> values, tokens |-> toks]
         ELSE LET req == Token_is_required(toks[f])
                  toks1 == [toks EXCEPT ![f] = req.self]
              IN  IF req.ret
                  THEN IF KwGet(kwds, f) # None
                       THEN solve_loop(fields, n + 1, i, Put(values, f, kwds[f]),
                                       toks1, args, kwds)
                       ELSE LET arg == args_item(args, i) IN
                            IF arg.exc # ""
                            THEN [exc |-> arg.exc, values |-> values, tokens |-> toks1]
                            ELSE solve_loop(fields, n + 1, i + 1,
                                            Put(values, f, arg.val), toks1, args, kwds)
                  ELSE LET s == Token_solve(toks1[f], KwGet(kwds, f))
                       IN  solve_loop(fields, n + 1, i, Put(values, f, s.ret),
                                      [toks1 EXCEPT ![f] = s.self], args, kwds)

\* a solve that passes over the fields whose token is not registered
solve_registered_only(toks, rs, args, kwds) ==
    LET act == active_rule(rs) IN
    IF act.exc # "" THEN [ret |-> Raise(act.exc), tokens |-> toks]
    ELSE IF act.val.cls # "Rule" THEN [ret |-> Raise("AttributeError"), tokens |-> toks]
    ELSE LET rule == [act.val EXCEPT
                         !._fields = SelectSeq(@, LAMBDA f : f \in DOMAIN toks)]
             l == solve_loop(rule._fields, 1, 0, Empty, toks, args, kwds)
         IN  IF l.exc # "" THEN [ret |-> Raise(l.exc), tokens |-> l.tokens]
             ELSE [ret |-> Rule_solve(rule, l.values), tokens |-> l.tokens]

\* solve(*args, **kwds): the outcome and the tokens afterwards
solve(toks, rs, args, kwds) ==
    LET act == active_rule(rs) IN
    IF act.exc # "" THEN [ret |-> Raise(act.exc), tokens |-> toks]
    ELSE LET rule == act.val
             fields == rule_fields(rule)
             l == solve_loop(fields.val, 1, 0, Empty, toks, args, kwds)
         IN
         IF fields.exc # "" THEN [ret |-> Raise(fields.exc), tokens |-> toks]
         ELSE
         IF l.exc # "" THEN [ret |-> Raise(l.exc), tokens |-> l.tokens]
         ELSE [ret |-> Rule_solve(rule, l.values), tokens |-> l.tokens]

\* a parse that returns an empty mapping when no Rule is active
parse_lenient(toks, rs, name) ==
    LET act == active_rule(rs) IN
    IF act.exc # "" THEN [ret |-> Return(Empty), tokens |-> toks]
    ELSE IF act.val.cls # "Rule" THEN [ret |-> Return(Empty), tokens |-> toks]
    ELSE Rule_parse(act.val, name, toks)

\* parse(name): the outcome and the tokens afterwards
parse(toks, rs, name) ==
    LET act == active_rule(rs) IN
    IF act.exc # "" THEN [ret |-> Raise(act.exc), tokens |-> toks]
    ELSE IF act.val.cls # "Rule" THEN [ret |-> Raise("AttributeError"), tokens |-> toks]
    ELSE Rule_parse(act.val, name, toks)

----------------------------------------------------------------------------
(* Files.  A file name is <<name, extension>>; files maps the names of the *)
(* files that exist to what they hold: a JSON document and its value, or   *)
(* text that is no JSON.  The values are the mappings data() returns and   *)
(* the mapping of naming.conf; json.load builds their dicts anew, so a     *)
(* dict comes back with its pairs in whatever order the interpreter gives. *)

\* what json.dump writes for a mapping
json_dump(value) == [parses |-> TRUE, value |-> value]

\* a file json.load cannot parse
NotJson == [parses |-> FALSE, value |-> None]

\* the orders of the pairs of a dict
Reorderings(d) ==
    {o \in [1..Len(d) -> {d[i] : i \in 1..Len(d)}] :
        \A i, j \in 1..Len(d) : i # j => o[i] # o[j]}

\* the values json.load may return for a document
json_load(doc) ==
    IF "_items" \in DOMAIN doc.value
    THEN {[doc.value EXCEPT !._items = o] : o \in Reorderings(doc.value._items)}
    ELSE {doc.value}

\* get_token
get_token(toks, name) == IF name \in DOMAIN toks THEN toks[name] ELSE [cls |-> "NoneType"]

\* save_token: the outcome and the files afterwards
save_token(toks, fs, name, filepath) ==
    LET token == get_token(toks, name) IN
    IF token.cls = "NoneType" THEN [ret |-> Return(FALSE), files |-> fs]
    ELSE [ret |-> Return(TRUE),
          files |-> Put(fs, filepath, json_dump(Serializable_data(token)))]

\* save_rule: get_rule(name) is a Rule, None, or for "_active" the str
\* of a name, which has no data(): the file is opened, and so emptied,
\* before rule.data() is evaluated
save_rule(rs, fs, name, filepath) ==
    LET rule == get_rule(rs, name) IN
    IF rule.cls = "NoneType" THEN [ret |-> Return(FALSE), files |-> fs]
    ELSE IF rule.cls = "str"
    THEN [ret |-> Raise("AttributeError"), files |-> Put(fs, filepath, NotJson)]
    ELSE [ret |-> Return(TRUE),
          files |-> Put(fs, filepath, json_dump(Serializable_data(rule)))]

\* load_token: the outcomes, each with the tokens afterwards; token is
\* None when the document is of another class, and None has no name()
load_token(toks, fs, filepath) ==
    IF filepath \notin DOMAIN fs THEN {[ret |-> Return(FALSE), tokens |-> toks]}
    ELSE IF ~fs[filepath].parses THEN {[ret |-> Return(FALSE), tokens |-> toks]}
    ELSE {LET token == Token_from_data(data) IN
          IF token.cls = "NoneType"
          THEN [ret |-> Raise("AttributeError"), tokens |-> toks]
          ELSE [ret |-> Return(TRUE), tokens |-> Put(toks, token._name, token)]
          : data \in json_load(fs[filepath])}

\* load_rule: the outcomes, each with the rules afterwards
load_rule(rs, fs, filepath) ==
    IF filepath \notin DOMAIN fs THEN {[ret |-> Return(FALSE), rules |-> rs]}
    ELSE IF ~fs[filepath].parses THEN {[ret |-> Return(FALSE), rules |-> rs]}
    ELSE {LET rule == Rule_from_data(data) IN
          IF rule.cls = "NoneType"
          THEN [ret |-> Raise("AttributeError"), rules |-> rs]
          ELSE [ret |-> Return(TRUE), rules |-> Put(rs, rule._name, rule)]
          : data \in json_load(fs[filepath])}

----------------------------------------------------------------------------
(* Sessions: the directory repo holds name.token for a token, name.rule    *)
(* for a rule and naming.conf                                              *)

CONF == <<Str("naming"), "conf">>

TokenFile(name) == <<name, "token">>

RuleFile(name) == <<name, "rule">>

\* the names under which _rules holds a Rule
RuleKeys(rs) == {n \in DOMAIN rs : rs[n].cls = "Rule"}

\* the orders in which the elements of a set may come
Walks(S_) ==
    {w \in [1..Cardinality(S_) -> S_] : \A i, j \in DOMAIN w : i # j => w[i] # w[j]}

\* a save_session that leaves in every token the default it computes
save_session_defaults_stored(toks, rs, fs) ==
    [ret |-> Return(TRUE), files |-> fs,
     tokens |-> [n \in DOMAIN toks |-> Token_default(toks[n]).self],
     rules |-> rs]

\* save_session: the outcome, the files afterwards, and the tokens and
\* rules afterwards, which nothing assigns to (data() works on a deep
\* copy).  The files of the tokens and rules are written first;
\* active.name() fails on the str that active_rule returns when "_active"
\* names itself.
save_session(toks, rs, fs) ==
    LET tokenfiles == {TokenFile(n) : n \in DOMAIN toks}
        rulefiles == {RuleFile(n) : n \in RuleKeys(rs)}
        saved == [f \in DOMAIN fs \cup tokenfiles \cup rulefiles |->
                    IF f \in tokenfiles THEN json_dump(Serializable_data(toks[f[1]]))
                    ELSE IF f \in rulefiles THEN json_dump(Serializable_data(rs[f[1]]))
                    ELSE fs[f]]
        active == active_rule(rs)
    IN  IF active.exc # ""
        THEN [ret |-> Raise(active.exc), files |-> saved, tokens |-> toks, rules |-> rs]
        ELSE IF active.val.cls = "str"
        THEN [ret |-> Raise("AttributeError"), files |-> saved,
              tokens |-> toks, rules |-> rs]
        ELSE [ret |-> Return(TRUE),
              files |-> Put(saved, CONF,
                            json_dump([set_active_rule |-> active.val._name])),
              tokens |-> toks, rules |-> rs]

\* a save_session that writes naming.conf before the other files
SaveWrites_conf_first(toks, rs) ==
    {<<CONF>> \o tw \o rw : tw \in Walks({TokenFile(n) : n \in DOMAIN toks}),
                            rw \in Walks({RuleFile(n) : n \in RuleKeys(rs)})}

\* the files save_session opens for writing, in the order it opens them:
\* one per token in the order _tokens iterates, one per Rule in the order
\* _rules iterates, then naming.conf unless active_rule() or active.name()
\* has raised
SaveWrites(toks, rs) ==
    LET active == active_rule(rs)
        conf == IF active.exc # "" \/ active.val.cls = "str" THEN <<>> ELSE <<CONF>>
    IN  {tw \o rw \o conf : tw \in Walks({TokenFile(n) : n \in DOMAIN toks}),
                            rw \in Walks({RuleFile(n) : n \in RuleKeys(rs)})}

\* what save_session writes to the file f
SaveDocument(toks, rs, f) ==
    IF f[2] = "token" THEN json_dump(Serializable_data(toks[f[1]]))
    ELSE IF f[2] = "rule" THEN json_dump(Serializable_data(rs[f[1]]))
    ELSE json_dump([set_active_rule |-> active_rule(rs).val._name])

\* an outcome of load_session, or of a part of it
Outcome(exc, toks, rs) == [exc |-> exc, tokens |-> toks, rules |-> rs]

\* the loop of load_session over the files from the n-th of walk on: the
\* outcomes; an exception of load_token or load_rule ends the loop
RECURSIVE load_files(_, _, _, _, _)
load_files(walk, n, toks, rs, fs) ==
    IF n > Len(walk) THEN {Outcome("", toks, rs)}
    ELSE IF walk[n][2] = "token"
    THEN UNION {IF r.ret.exc # "" THEN {Outcome(r.ret.exc, r.tokens, rs)}
                ELSE load_files(walk, n + 1, r.tokens, rs, fs)
                : r \in load_token(toks, fs, walk[n])}
    ELSE IF walk[n][2] = "rule"
    THEN UNION {IF r.ret.exc # "" THEN {Outcome(r.ret.exc, toks, r.rules)}
                ELSE load_files(walk, n + 1, toks, r.rules, fs)
                : r \in load_rule(rs, fs, walk[n])}
    ELSE load_files(walk, n + 1, toks, rs, fs)

\* a load_session that never looks a key of naming.conf up
call_global_ignored(k, v, toks, rs) == Outcome("", toks, rs)

\* globals()[k](v), for the keys of naming.conf: the name of a function
\* of the module, or a key that names nothing in it
call_global(k, v, toks, rs) ==
    IF k = "set_active_rule" THEN Outcome("", toks, set_active_rule(rs, v).rules)
    ELSE IF k = "remove_rule" THEN Outcome("", toks, remove_rule(rs, v).rules)
    ELSE IF k = "remove_token" THEN Outcome("", remove_token(toks, v).tokens, rs)
    ELSE Outcome("KeyError", toks, rs)

\* the loop of load_session over config.iteritems(), from the n-th key on
RECURSIVE apply_config(_, _, _, _, _)
apply_config(keys, n, config, toks, rs) ==
    IF n > Len(keys) THEN Outcome("", toks, rs)
    ELSE LET r == call_global(keys[n], config[keys[n]], toks, rs)
         IN  IF r.exc # "" THEN r
             ELSE apply_config(keys, n + 1, config, r.tokens, r.rules)

\* load_session: the outcomes, each with the tokens and rules afterwards.
\* naming.conf is read outside any try block.
load_session(toks, rs, fs) ==
    LET loaded == UNION {load_files(walk, 1, toks, rs, fs) : walk \in Walks(DOMAIN fs)}
        configured(o) ==
            IF o.exc # "" \/ CONF \notin DOMAIN fs THEN {o}
            ELSE IF ~fs[CONF].parses THEN {Outcome("ValueError", o.tokens, o.rules)}
            ELSE UNION {{apply_config(keys, 1, config, o.tokens, o.rules)
                         : keys \in Walks(DOMAIN config)}
                        : config \in json_load(fs[CONF])}
    IN  {[ret |-> IF c.exc # "" THEN Raise(c.exc) ELSE Return(TRUE),
          tokens |-> c.tokens, rules |-> c.rules]
         : c \in UNION {configured(o) : o \in loaded}}

----------------------------------------------------------------------------
(* Bounds and the inputs of the calls *)

MaxFields == 2      \* the longest field list a rule is given

D == Str("d")
S == Str("s")
R1 == Str("r1")
K1 == Str("k1")
K2 == Str("k2")
X == Str("x")
Y == Str("y")
A == Str("a")
B == Str("b")
US == Str("_")
DEFAULT == Str("default")

TokenNames == {D, S}
RuleNames == {R1}
Keys == {K1, K2}

\* the sequences over S of length at most n
SeqUpTo(S_, n) == UNION {[1..k -> S_] : k \in 0..n}

\* the keyword arguments add_token is called with: none (a free-form
\* token), a default alone, an item whose value holds the delimiter, two
\* items of one value, two items and a default
TokenKwds ==
    { {},
      {<<DEFAULT, X>>},
      {<<K1, US>>},
      {<<K1, X>>, <<K2, X>>},
      {<<K1, X>>, <<K2, Y>>, <<DEFAULT, Y>>} }

\* the orders a dict with the pairs kw may iterate in
Orders(kw) ==
    {o \in [1..Cardinality(kw) -> kw] : \A i, j \in DOMAIN o : i # j => o[i] # o[j]}

\* the field lists add_rule is called with
FieldLists == SeqUpTo(TokenNames, MaxFields)

\* positional arguments of solve, as many as a rule has fields or fewer:
\* the k-th is the k-th of A, B, A, B, ...
PosArg(k) == IF k % 2 = 1 THEN A ELSE B
ArgLists == {[i \in 1..k |-> PosArg(i)] : k \in 0..MaxFields}

\* named arguments of solve: for each token name nothing, or a str that
\* is the key of an item for one token and a free-form value for another:
\* K1, K2, or one with the delimiter
KwValues == {K1, K2, US}
AllKwds == UNION {[ns -> KwValues] : ns \in SUBSET TokenNames}

\* the names parse is called with: pieces joined by "_", up to one more
\* than a rule has fields
Pieces == {X, Y, K1}
RECURSIVE join(_)
join(pieces) ==
    IF Len(pieces) = 0 THEN <<>>
    ELSE IF Len(pieces) = 1 THEN pieces[1]
    ELSE pieces[1] \o Str("_") \o join(Tail(pieces))
Names == {join(ps) : ps \in SeqUpTo(Pieces, MaxFields + 1)}

\* the calls of solve and parse the behaviours make; the properties
\* range over all of ArgLists, AllKwds and Names in every state
SolveKwds ==
    { Empty,
      Put(Empty, S, K1),
      Put(Empty, D, US),
      Put(Put(Empty, D, K1), S, K2) }
ParseNames ==
    { <<>>, X, join(<<K1, X>>), join(<<X, K1>>), join(<<K1, Y>>), join(<<K1, X, Y>>) }

----------------------------------------------------------------------------
(* The calls *)

Call(op, args, ret) == [op |-> op, args |-> args, ret |-> ret]

Init ==
    /\ _tokens = Empty
    /\ _rules = Put(Empty, ACTIVE, NoneVal)
    /\ inserted = Empty
    /\ defaulted = {}
    /\ files = Empty
    /\ last = Call("import", <<>>, Return(None))

AddToken ==
    \E name \in TokenNames, kwds \in TokenKwds :
        \E kw \in Orders(kwds) :
            LET r == add_token(_tokens, name, kw) IN
            /\ _tokens' = r.tokens
            /\ last' = Call("add_token", <<name, kwds>>, r.ret)
            /\ UNCHANGED <<_rules, inserted, defaulted, files>>

\* a flush_tokens that clears the rules as well
FlushTokens_and_rules ==
    /\ _tokens' = flush_tokens(_tokens).tokens
    /\ _rules' = flush_rules(_rules).rules
    /\ last' = Call("flush_tokens", <<>>, flush_tokens(_tokens).ret)
    /\ UNCHANGED <<inserted, defaulted, files>>

FlushTokens ==
    LET r == flush_tokens(_tokens) IN
    /\ _tokens' = r.tokens
    /\ last' = Call("flush_tokens", <<>>, r.ret)
    /\ UNCHANGED <<_rules, inserted, defaulted, files>>

RemoveToken ==
    \E name \in TokenNames :
        LET r == remove_token(_tokens, name) IN
        /\ _tokens' = r.tokens
        /\ last' = Call("remove_token", <<name>>, r.ret)
        /\ UNCHANGED <<_rules, inserted, defaulted, files>>

AddRule ==
    \E name \in RuleNames, fields \in FieldLists :
        LET r == add_rule(_rules, name, fields) IN
        /\ _rules' = r.rules
        /\ last' = Call("add_rule", <<name, fields>>, r.ret)
        /\ UNCHANGED <<_tokens, inserted, defaulted, files>>

FlushRules ==
    LET r == flush_rules(_rules) IN
    /\ _rules' = r.rules
    /\ last' = Call("flush_rules", <<>>, r.ret)
    /\ UNCHANGED <<_tokens, inserted, defaulted, files>>

RemoveRule ==
    \E name \in RuleNames :
        LET r == remove_rule(_rules, name) IN
        /\ _rules' = r.rules
        /\ last' = Call("remove_rule", <<name>>, r.ret)
        /\ UNCHANGED <<_tokens, inserted, defaulted, files>>

SetActiveRule ==
    \E name \in RuleNames :
        LET r == set_active_rule(_rules, name) IN
        /\ _rules' = r.rules
        /\ last' = Call("set_active_rule", <<name>>, r.ret)
        /\ UNCHANGED <<_tokens, inserted, defaulted, files>>

Solve ==
    \E args \in ArgLists, kwds \in SolveKwds :
        LET r == solve(_tokens, _rules, args, kwds) IN
        /\ _tokens' = r.tokens
        /\ last' = Call("solve", <<args, kwds>>, r.ret)
        /\ UNCHANGED <<_rules, inserted, defaulted, files>>

Parse ==
    \E name \in ParseNames :
        LET r == parse(_tokens, _rules, name) IN
        /\ _tokens' = r.tokens
        /\ last' = Call("parse", <<name>>, r.ret)
        /\ UNCHANGED <<_rules, inserted, defaulted, files>>

Next ==
    \/ AddToken
    \/ FlushTokens
    \/ RemoveToken
    \/ AddRule
    \/ FlushRules
    \/ RemoveRule
    \/ SetActiveRule
    \/ Solve
    \/ Parse

Spec == Init /\ [][Next]_vars

----------------------------------------------------------------------------
(* The calls on the objects: a token and a rule are built step by step,    *)
(* through the methods of the objects the registries hand out.             *)

\* the token these calls build, and the values its items emit
ObjectNames == {S}
Emitted == {X, Y}

\* the names parse is called with
ObjectParseNames == {join(ps) : ps \in SeqUpTo(Emitted, MaxFields) \ {<<>>}}

\* add_token(name)
NewToken ==
    \E name \in ObjectNames :
        LET r == add_token(_tokens, name, <<>>) IN
        /\ _tokens' = r.tokens
        /\ inserted' = Put(inserted, name, <<>>)
        /\ defaulted' = defaulted \ {name}
        /\ last' = Call("add_token", <<name>>, r.ret)
        /\ UNCHANGED <<_rules, files>>

\* get_token(name).set_default(value)
SetDefault ==
    \E name \in DOMAIN _tokens, value \in Emitted :
        /\ _tokens' = [_tokens EXCEPT ![name] = Token_set_default(@, value)]
        /\ defaulted' = defaulted \cup {name}
        /\ last' = Call("Token.set_default", <<name, value>>, Return(None))
        /\ UNCHANGED <<_rules, inserted, files>>

\* get_token(name).add_item(key, value)
AddItem ==
    \E name \in DOMAIN _tokens, key \in Keys, value \in Emitted :
        \E p \in 1..(Len(_tokens[name]._items) + 1) :
            /\ _tokens' = [_tokens EXCEPT ![name] = Token_add_item(@, key, value, p)]
            /\ inserted' = [inserted EXCEPT ![name] =
                    IF \E i \in 1..Len(@) : @[i] = key THEN @ ELSE Append(@, key)]
            /\ last' = Call("Token.add_item", <<name, key, value>>, Return(None))
            /\ UNCHANGED <<_rules, defaulted, files>>

\* get_token(name).default()
Default ==
    \E name \in DOMAIN _tokens :
        LET r == Token_default(_tokens[name]) IN
        /\ _tokens' = [_tokens EXCEPT ![name] = r.self]
        /\ last' = Call("Token.default", <<name>>, Return(r.ret))
        /\ UNCHANGED <<_rules, inserted, defaulted, files>>

\* add_rule(name) and add_rule(name, field)
NewRule ==
    \E name \in RuleNames, fields \in SeqUpTo(ObjectNames, 1) :
        LET r == add_rule(_rules, name, fields) IN
        /\ _rules' = r.rules
        /\ last' = Call("add_rule", <<name, fields>>, r.ret)
        /\ UNCHANGED <<_tokens, inserted, defaulted, files>>

\* get_rule(name).add_fields(token_names)
AddFields ==
    \E name \in RuleNames, token_names \in SeqUpTo(ObjectNames, MaxFields) \ {<<>>} :
        /\ get_rule(_rules, name).cls = "Rule"
        /\ Len(_rules[name]._fields) + Len(token_names) <= MaxFields
        /\ _rules' = [_rules EXCEPT ![name] = Rule_add_fields(@, token_names)]
        /\ last' = Call("Rule.add_fields", <<name, token_names>>, Return(None))
        /\ UNCHANGED <<_tokens, inserted, defaulted, files>>

\* parse(name)
ParseName ==
    \E name \in ObjectParseNames :
        LET r == parse(_tokens, _rules, name) IN
        /\ _tokens' = r.tokens
        /\ last' = Call("parse", <<name>>, r.ret)
        /\ UNCHANGED <<_rules, inserted, defaulted, files>>

\* obj.data() of what from_data returned
data_of(obj) ==
    IF obj.cls = "NoneType" THEN Raise("AttributeError")
    ELSE Return(Serializable_data(obj))

\* Token.from_data(get_token(name).data()).data()
TokenFromData ==
    \E name \in DOMAIN _tokens :
        /\ last' = Call("Token.from_data", <<name>>,
                        data_of(Token_from_data(Serializable_data(_tokens[name]))))
        /\ UNCHANGED <<_tokens, _rules, inserted, defaulted, files>>

\* Rule.from_data(get_rule(name).data()).data()
RuleFromData ==
    \E name \in RuleNames :
        /\ get_rule(_rules, name).cls = "Rule"
        /\ last' = Call("Rule.from_data", <<name>>,
                        data_of(Rule_from_data(Serializable_data(_rules[name]))))
        /\ UNCHANGED <<_tokens, _rules, inserted, defaulted, files>>

\* cls.from_data, cls given by its name
from_data(cls, data) ==
    IF cls = "Token" THEN Token_from_data(data) ELSE Rule_from_data(data)

\* the registered tokens and rules
Objects ==
    {_tokens[n] : n \in DOMAIN _tokens}
        \cup {_rules[n] : n \in {m \in DOMAIN _rules : _rules[m].cls = "Rule"}}

\* obj.data() without its classname
untagged(obj) == Drop(Serializable_data(obj), {CLASSNAME})

\* Token.from_data and Rule.from_data on the data of an object of the
\* other class, and on data without a classname
FromDataOfAnother ==
    \E cls \in {"Token", "Rule"}, obj \in Objects, tagged \in BOOLEAN :
        /\ tagged => obj.cls # cls
        /\ LET data == IF tagged THEN Serializable_data(obj) ELSE untagged(obj)
           IN  last' = Call("from_data", <<cls, data>>, Return(from_data(cls, data)))
        /\ UNCHANGED <<_tokens, _rules, inserted, defaulted, files>>

\* data = obj.data(); cls.from_data(data); cls.from_data(data).data():
\* last keeps the mapping as the first call left it
FromDataTwice ==
    \E obj \in Objects :
        LET data == Serializable_data(obj)
            after == Serializable_from_data_mapping(obj.cls, data)
        IN  /\ last' = Call("from_data, from_data", <<obj.cls, data, after>>,
                            data_of(from_data(obj.cls, after)))
            /\ UNCHANGED <<_tokens, _rules, inserted, defaulted, files>>

NextObjects ==
    \/ FromDataOfAnother
    \/ FromDataTwice
    \/ NewToken
    \/ SetDefault
    \/ AddItem
    \/ Default
    \/ NewRule
    \/ AddFields
    \/ ParseName
    \/ TokenFromData
    \/ RuleFromData

SpecObjects == Init /\ [][NextObjects]_vars

----------------------------------------------------------------------------
(* The calls on the registry of rules: two rule names, and "_active", the  *)
(* key of _rules that holds the name of the active rule, as a name a       *)
(* caller passes.                                                          *)

R2 == Str("r2")

\* the names add_rule is given, and the names the other calls are given
RegistryNames == {R1, R2}
RegistryArgs == RegistryNames \cup {ACTIVE}

\* add_rule(name) and add_rule(name, field)
RegistryAddRule ==
    \E name \in RegistryNames, fields \in SeqUpTo(ObjectNames, 1) :
        LET r == add_rule(_rules, name, fields) IN
        /\ _rules' = r.rules
        /\ last' = Call("add_rule", <<name, fields>>, r.ret)
        /\ UNCHANGED <<_tokens, inserted, defaulted, files>>

\* remove_rule(name)
RegistryRemoveRule ==
    \E name \in RegistryArgs :
        LET r == remove_rule(_rules, name) IN
        /\ _rules' = r.rules
        /\ last' = Call("remove_rule", <<name>>, r.ret)
        /\ UNCHANGED <<_tokens, inserted, defaulted, files>>

\* set_active_rule(name)
RegistrySetActiveRule ==
    \E name \in RegistryArgs :
        LET r == set_active_rule(_rules, name) IN
        /\ _rules' = r.rules
        /\ last' = Call("set_active_rule", <<name>>, r.ret)
        /\ UNCHANGED <<_tokens, inserted, defaulted, files>>

\* has_rule(name)
RegistryHasRule ==
    \E name \in RegistryArgs :
        /\ last' = Call("has_rule", <<name>>, Return(has_rule(_rules, name)))
        /\ UNCHANGED <<_tokens, _rules, inserted, defaulted, files>>

NextRegistry ==
    \/ RegistryAddRule
    \/ RegistryRemoveRule
    \/ RegistrySetActiveRule
    \/ RegistryHasRule
    \/ FlushRules
    \/ NewToken
    \/ RemoveToken
    \/ FlushTokens

SpecRegistry == Init /\ [][NextRegistry]_vars

----------------------------------------------------------------------------
(* The calls that save and load one token or one rule *)

\* the keyword arguments add_token is called with: none, or two items of
\* one value
FileTokenKwds == { {}, {<<K1, X>>, <<K2, X>>} }

\* the files the calls name
FilePaths == {<<S, "token">>, <<R1, "rule">>}

\* add_token(name, **kwds)
FilesAddToken ==
    \E name \in ObjectNames, kwds \in FileTokenKwds :
        \E kw \in Orders(kwds) :
            LET r == add_token(_tokens, name, kw) IN
            /\ _tokens' = r.tokens
            /\ last' = Call("add_token", <<name, kwds>>, r.ret)
            /\ UNCHANGED <<_rules, inserted, defaulted, files>>

\* save_token(name, filepath)
SaveToken ==
    \E name \in ObjectNames, filepath \in FilePaths :
        LET r == save_token(_tokens, files, name, filepath) IN
        /\ files' = r.files
        /\ last' = Call("save_token", <<name, filepath>>, r.ret)
        /\ UNCHANGED <<_tokens, _rules, inserted, defaulted>>

\* save_rule(name, filepath)
SaveRule ==
    \E name \in RuleNames, filepath \in FilePaths :
        LET r == save_rule(_rules, files, name, filepath) IN
        /\ files' = r.files
        /\ last' = Call("save_rule", <<name, filepath>>, r.ret)
        /\ UNCHANGED <<_tokens, _rules, inserted, defaulted>>

\* load_token(filepath)
LoadToken ==
    \E filepath \in FilePaths :
        \E r \in load_token(_tokens, files, filepath) :
            /\ _tokens' = r.tokens
            /\ last' = Call("load_token", <<filepath>>, r.ret)
            /\ UNCHANGED <<_rules, inserted, defaulted, files>>

\* load_rule(filepath)
LoadRule ==
    \E filepath \in FilePaths :
        \E r \in load_rule(_rules, files, filepath) :
            /\ _rules' = r.rules
            /\ last' = Call("load_rule", <<filepath>>, r.ret)
            /\ UNCHANGED <<_tokens, inserted, defaulted, files>>

\* another program writes text that is no JSON to a file
WriteNotJson ==
    \E filepath \in FilePaths :
        /\ files' = Put(files, filepath, NotJson)
        /\ last' = Call("write", <<filepath>>, Return(None))
        /\ UNCHANGED <<_tokens, _rules, inserted, defaulted>>

NextFiles ==
    \/ FilesAddToken
    \/ NewRule
    \/ SaveToken
    \/ SaveRule
    \/ LoadToken
    \/ LoadRule
    \/ WriteNotJson
    \/ FlushTokens
    \/ FlushRules

SpecFiles == Init /\ [][NextFiles]_vars

----------------------------------------------------------------------------
(* Calls that save and load sessions: one token, two rules over it, the   *)
(* directory files, and an editor of naming.conf                          *)

\* what an editor may add to naming.conf
ConfEdits == {<<"remove_token", S>>, <<"colour", X>>}

\* add_rule(name, "s")
SessionAddRule ==
    \E name \in RegistryNames :
        LET r == add_rule(_rules, name, <<S>>) IN
        /\ _rules' = r.rules
        /\ last' = Call("add_rule", <<name, <<S>>>>, r.ret)
        /\ UNCHANGED <<_tokens, inserted, defaulted, files>>

\* save_session(repo)
SaveSession ==
    LET r == save_session(_tokens, _rules, files) IN
    /\ files' = r.files
    /\ _tokens' = r.tokens
    /\ _rules' = r.rules
    /\ last' = Call("save_session", <<>>, r.ret)
    /\ UNCHANGED <<inserted, defaulted>>

\* load_session(repo); last keeps the names registered when it was called
LoadSession ==
    \E r \in load_session(_tokens, _rules, files) :
        /\ _tokens' = r.tokens
        /\ _rules' = r.rules
        /\ last' = Call("load_session", <<DOMAIN _tokens, RuleKeys(_rules)>>, r.ret)
        /\ UNCHANGED <<inserted, defaulted, files>>

\* another program adds a key to naming.conf
EditConf ==
    \E e \in ConfEdits :
        /\ CONF \in DOMAIN files
        /\ files[CONF].parses
        /\ LET config == files[CONF].value IN
           files' = Put(files, CONF,
                        json_dump([k \in DOMAIN config \cup {e[1]} |->
                                     IF k = e[1] THEN e[2] ELSE config[k]]))
        /\ last' = Call("write", <<CONF, e>>, Return(None))
        /\ UNCHANGED <<_tokens, _rules, inserted, defaulted>>

NextSession ==
    \/ FilesAddToken
    \/ SessionAddRule
    \/ RegistrySetActiveRule
    \/ RegistryRemoveRule
    \/ FlushTokens
    \/ FlushRules
    \/ SaveSession
    \/ LoadSession
    \/ EditConf

SpecSession == Init /\ [][NextSession]_vars

----------------------------------------------------------------------------
(* save_session write by write: last holds the position of the call, the  *)
(* files it opens in their order and how many of them are written.  Any   *)
(* other call may follow a position: the save was interrupted there.      *)

RUNNING == "save_session, running"

\* save_session(repo) is called
SaveSessionBegin ==
    \E writes \in SaveWrites(_tokens, _rules) :
        /\ last' = Call(RUNNING, <<writes, 0>>, Return(None))
        /\ UNCHANGED <<_tokens, _rules, inserted, defaulted, files>>

\* it writes its next file
SaveSessionWrite ==
    /\ last.op = RUNNING
    /\ last.args[2] < Len(last.args[1])
    /\ LET f == last.args[1][last.args[2] + 1] IN
       files' = Put(files, f, SaveDocument(_tokens, _rules, f))
    /\ last' = Call(RUNNING, <<last.args[1], last.args[2] + 1>>, Return(None))
    /\ UNCHANGED <<_tokens, _rules, inserted, defaulted>>

\* it returns, or raises what active_rule() or active.name() raises
SaveSessionEnd ==
    /\ last.op = RUNNING
    /\ last.args[2] = Len(last.args[1])
    /\ last' = Call("save_session", last.args, save_session(_tokens, _rules, files).ret)
    /\ UNCHANGED <<_tokens, _rules, inserted, defaulted, files>>

NextSave ==
    \/ FilesAddToken
    \/ SessionAddRule
    \/ RegistryRemoveRule
    \/ FlushTokens
    \/ SaveSessionBegin
    \/ SaveSessionWrite
    \/ SaveSessionEnd

SpecSave == Init /\ [][NextSave]_vars

----------------------------------------------------------------------------
(* The functions of the module on tokens, rules and their files together  *)

\* save_rule(name, filepath), also with the key "_active" for a name
ModuleSaveRule ==
    \E name \in RegistryArgs, filepath \in FilePaths :
        LET r == save_rule(_rules, files, name, filepath) IN
        /\ files' = r.files
        /\ last' = Call("save_rule", <<name, filepath>>, r.ret)
        /\ UNCHANGED <<_tokens, _rules, inserted, defaulted>>

NextModule ==
    \/ FilesAddToken
    \/ RemoveToken
    \/ FlushTokens
    \/ SaveToken
    \/ LoadToken
    \/ SessionAddRule
    \/ RemoveRule
    \/ SetActiveRule
    \/ FlushRules
    \/ ModuleSaveRule
    \/ LoadRule

SpecModule == Init /\ [][NextModule]_vars

----------------------------------------------------------------------------
(* The vocabulary of the properties *)

\* the active rule is a Rule
HasActive == active_rule(_rules).exc = "" /\ active_rule(_rules).val.cls = "Rule"

\* its fields
Fields == active_rule(_rules).val._fields

FieldSet == {Fields[i] : i \in 1..Len(Fields)}

\* the last place field f has in the rule
LastPlace(f) ==
    CHOOSE i \in 1..Len(Fields) :
        Fields[i] = f /\ \A j \in (i + 1)..Len(Fields) : Fields[j] # f

\* every field names a registered token
FieldsRegistered == FieldSet \subseteq DOMAIN _tokens

Required(f) == Token_is_required(_tokens[f]).ret

\* the number of pieces of a name: one more than it has delimiters
PieceCount(name) == 1 + Cardinality({i \in 1..Len(name) : name[i] = "_"})

\* a str without the delimiter
DelimiterFree(v) == \A i \in 1..Len(v) : v[i] # "_"

\* no two keys of the items of token f emit the same value
Injective(f) ==
    \A i, j \in 1..Len(_tokens[f]._items) :
        _tokens[f]._items[i][2] = _tokens[f]._items[j][2] => i = j

EmittedDelimiterFree(f) ==
    \A i \in 1..Len(_tokens[f]._items) : DelimiterFree(_tokens[f]._items[i][2])

\* the assignments of a value to every field of the active rule: a
\* delimiter-free free-form value to a required field, a key of its items
\* to any other
Assignments ==
    {v \in [FieldSet -> KwValues] :
        \A f \in FieldSet :
            IF Required(f) THEN DelimiterFree(v[f])
            ELSE v[f] \in DictKeys(_tokens[f]._items)}

\* parse(solve(**v)) == v
RoundTrip(v) ==
    LET s == solve(_tokens, _rules, <<>>, v)
    IN  /\ s.ret.exc = ""
        /\ LET p == parse(s.tokens, _rules, s.ret.val)
           IN  p.ret.exc = "" /\ p.ret.val = v

----------------------------------------------------------------------------
(* C1: round trip *)

\* C1, as stated: for every active rule whose fields are each a required
\* token (given a delimiter-free value) or a token with injective items,
\* parse(solve(**values)) returns values, for every assignment of valid
\* values to the fields.
C1_RoundTrip_AsStated ==
    (HasActive /\ FieldsRegistered
        /\ \A f \in FieldSet : Required(f) \/ Injective(f))
    => \A v \in Assignments : RoundTrip(v)

\* C1, amended: the same for every active rule with at least one field
\* whose tokens with items emit delimiter-free values.
C1_RoundTrip ==
    (HasActive /\ FieldsRegistered /\ Len(Fields) >= 1
        /\ \A f \in FieldSet : Required(f) \/ (Injective(f) /\ EmittedDelimiterFree(f)))
    => \A v \in Assignments : RoundTrip(v)

\* a name made of a free-form value and the value of the second of two
\* items has just been parsed back into the assignment that solves to it
C1_Witness ==
    /\ last.op = "parse" /\ last.ret.exc = ""
    /\ HasActive /\ FieldsRegistered /\ Len(Fields) = 2
    /\ \E f, g \in FieldSet :
        /\ Required(f) /\ ~Required(g)
        /\ Injective(g) /\ EmittedDelimiterFree(g) /\ Len(_tokens[g]._items) = 2
    /\ \E v \in Assignments :
        /\ solve(_tokens, _rules, <<>>, v).ret = Return(last.args[1])
        /\ last.ret.val = v
        /\ \E g \in FieldSet : ~Required(g) /\ v[g] = _tokens[g]._items[2][1]

----------------------------------------------------------------------------
(* C2: the layout of a solved name *)

\* kwds names every field of the active rule: any str for a required
\* field, a key of its items for any other
NamesEveryField(kwds) ==
    \A f \in FieldSet :
        /\ f \in DOMAIN kwds
        /\ Required(f) \/ kwds[f] \in DictKeys(_tokens[f]._items)

\* what field f adds to the name
Contribution(f, kwds) ==
    IF Required(f) THEN kwds[f] ELSE DictGet(_tokens[f]._items, kwds[f])

Layout(kwds) == join([i \in 1..Len(Fields) |-> Contribution(Fields[i], kwds)])

\* C2, as stated: solve returns the values of exactly the fields of the
\* active rule, in the order of the rule, joined by "_": the caller's value
\* for a required field, the emitted value of the given key for any other;
\* the arguments for names that are no field of the rule change nothing.
C2_Layout_AsStated ==
    (HasActive /\ FieldsRegistered)
    => \A kwds \in AllKwds :
          NamesEveryField(kwds)
          => LET name == Return(Layout(kwds))
             IN  \A args \in ArgLists : solve(_tokens, _rules, args, kwds).ret = name

\* C2, amended: the same for an active rule with at least one field.
C2_Layout ==
    (HasActive /\ FieldsRegistered /\ Len(Fields) >= 1)
    => \A kwds \in AllKwds :
          NamesEveryField(kwds)
          => LET name == Return(Layout(kwds))
             IN  \A args \in ArgLists : solve(_tokens, _rules, args, kwds).ret = name

\* solve has just returned the name of two fields, both named in the
\* call: the value of an item, then the value of an item of another token
C2_Witness ==
    /\ last.op = "solve" /\ last.ret.exc = ""
    /\ HasActive /\ FieldsRegistered
    /\ Len(Fields) = 2 /\ Fields[1] # Fields[2]
    /\ ~Required(Fields[1]) /\ ~Required(Fields[2])
    /\ NamesEveryField(last.args[2])
    /\ Contribution(Fields[1], last.args[2]) # Contribution(Fields[2], last.args[2])
    /\ last.ret.val = Layout(last.args[2])

----------------------------------------------------------------------------
(* C3: default substitution *)

\* the default of token f, as Token.default computes it
DefaultOf(f) == Token_default(_tokens[f]).ret

\* C3: for every optional field f of the active rule, solve without a
\* named argument for f returns what solve returns with f set to a key
\* whose emitted value is the default of the token, all else equal.
C3_DefaultSubstitution ==
    (HasActive /\ FieldsRegistered)
    => \A f \in FieldSet :
          ~Required(f)
          => \A kwds \in AllKwds, args \in ArgLists, k \in Keys :
                (f \notin DOMAIN kwds /\ k \in DictKeys(_tokens[f]._items)
                    /\ DictGet(_tokens[f]._items, k) = DefaultOf(f))
                => solve(_tokens, _rules, args, kwds).ret
                     = solve(_tokens, _rules, args, Put(kwds, f, k)).ret

\* solve has just returned a name whose optional field, not named in the
\* call, holds the default the token was given, not its first item
C3_Witness ==
    /\ last.op = "solve" /\ last.ret.exc = ""
    /\ HasActive /\ FieldsRegistered /\ Len(Fields) = 2
    /\ \E f \in FieldSet :
        /\ ~Required(f) /\ f \notin DOMAIN last.args[2]
        /\ Len(_tokens[f]._items) = 2
        /\ _tokens[f]._items[1][2] # DefaultOf(f)
        /\ \E k \in DictKeys(_tokens[f]._items) :
            /\ DictGet(_tokens[f]._items, k) = DefaultOf(f)
            /\ solve(_tokens, _rules, last.args[1], Put(last.args[2], f, k)).ret = last.ret

----------------------------------------------------------------------------
(* C4: the mapping parse returns *)

\* the first key of token f, in the order add_item was given the keys,
\* whose value is piece; None when there is none
FirstInserted(f, piece) ==
    LET hits == {i \in 1..Len(inserted[f]) :
                    DictGet(_tokens[f]._items, inserted[f][i]) = piece}
    IN  IF hits = {} THEN None
        ELSE inserted[f][CHOOSE i \in hits : \A j \in hits : i <= j]

\* C4, as stated, for a rule that names no field twice: parse of a name
\* with as many pieces as the rule has fields returns a mapping with one
\* entry per field: the i-th piece for a required i-th field, else the
\* first key in insertion order whose value is the piece, or None.
C4_ParseMapping_AsStated ==
    (HasActive /\ FieldsRegistered /\ Cardinality(FieldSet) = Len(Fields))
    => \A name \in ObjectParseNames :
          PieceCount(name) = Len(Fields)
          => parse(_tokens, _rules, name).ret
               = Return([f \in FieldSet |->
                    LET piece == split(name)[LastPlace(f)]
                    IN  IF Required(f) THEN piece ELSE FirstInserted(f, piece)])

----------------------------------------------------------------------------
(* C5: parse and the number of pieces *)

\* C5, as stated, for a rule with fields: parse fails whenever the number
\* of pieces of the name differs from the number of fields of the active
\* rule, with fewer pieces and with more.
C5_PieceCount_AsStated ==
    (HasActive /\ FieldsRegistered /\ Len(Fields) >= 1)
    => \A name \in Names :
          PieceCount(name) # Len(Fields)
          => parse(_tokens, _rules, name).ret.exc # ""

----------------------------------------------------------------------------
(* C6: a key that is no item *)

\* C6, as stated, for a token with items: solve produces no name when it
\* is given, for an optional field of the active rule, a key that is not
\* among the items of its token.
C6_UnknownKey_AsStated ==
    (HasActive /\ FieldsRegistered)
    => \A kwds \in AllKwds, args \in ArgLists :
          (\E f \in FieldSet :
              /\ ~Required(f) /\ f \in DOMAIN kwds
              /\ _tokens[f]._items # EmptyDict
              /\ kwds[f] \notin DictKeys(_tokens[f]._items))
          => solve(_tokens, _rules, args, kwds).ret.exc # ""

----------------------------------------------------------------------------
(* C7: no active rule *)

\* no rule is active: _rules["_active"] is missing, is None, or names no
\* registered rule
NoActiveRule ==
    \/ ACTIVE \notin DOMAIN _rules
    \/ _rules[ACTIVE].cls # "str"
    \/ _rules[ACTIVE]._name \notin DOMAIN _rules
    \/ _rules[_rules[ACTIVE]._name].cls # "Rule"

\* C7: whenever no rule is active, solve and parse end in an error, for
\* every argument.
C7_NoActiveRule ==
    NoActiveRule
    => /\ \A kwds \in AllKwds, args \in ArgLists :
              solve(_tokens, _rules, args, kwds).ret.exc # ""
       /\ \A name \in Names : parse(_tokens, _rules, name).ret.exc # ""

\* parse has just failed on a registry whose active rule was removed,
\* while tokens are registered
C7_Witness ==
    /\ last.op = "parse" /\ last.ret.exc = "AttributeError"
    /\ ACTIVE \in DOMAIN _rules /\ _rules[ACTIVE].cls = "str"
    /\ _rules[ACTIVE]._name \notin DOMAIN _rules
    /\ DOMAIN _tokens = TokenNames

----------------------------------------------------------------------------
(* C8, C9: the required fields and the positional arguments *)

\* the i-th field is required and has no named argument
Unnamed(i, kwds) == Required(Fields[i]) /\ KwGet(kwds, Fields[i]) = None

\* the number of such fields up to the i-th
Rank(i, kwds) == Cardinality({j \in 1..i : Unnamed(j, kwds)})

\* the number of positional arguments the fields ask for
Needed(kwds) == Rank(Len(Fields), kwds)

\* C8: solve fails whenever a required field of the active rule has no
\* named argument and no positional argument is left for it: the fields
\* ask for more positional arguments than there are.
C8_MissingRequired ==
    (HasActive /\ FieldsRegistered)
    => \A kwds \in AllKwds :
          LET needed == Needed(kwds)
          IN  \A args \in ArgLists :
                 needed > Len(args) => solve(_tokens, _rules, args, kwds).ret.exc # ""

\* solve has just failed for want of a second positional argument: it was
\* given one, and the rule has two required fields without a named one
C8_Witness ==
    /\ last.op = "solve" /\ last.ret.exc = "IndexError"
    /\ HasActive /\ FieldsRegistered /\ Len(Fields) = 2
    /\ Len(last.args[1]) = 1
    /\ Unnamed(1, last.args[2]) /\ Unnamed(2, last.args[2])

\* what the i-th field adds to the name when an unnamed required field
\* takes the positional argument pos(i)
Piece(i, args, kwds, pos(_)) ==
    LET f == Fields[i] IN
    IF ~Required(f) THEN str(Token_solve(_tokens[f], KwGet(kwds, f)).ret)
    ELSE IF KwGet(kwds, f) # None THEN kwds[f]
    ELSE args[pos(i)]

\* the name of the pieces, given which positional argument each place takes
Pieces_joined(args, kwds, pos(_)) ==
    Return(join([i \in 1..Len(Fields) |-> Piece(i, args, kwds, pos)]))

\* C9, as stated: the required fields are filled in field order: one with
\* a named argument takes it and uses no positional argument, the k-th of
\* the others takes the k-th positional argument.
C9_Positional_AsStated ==
    (HasActive /\ FieldsRegistered /\ Len(Fields) >= 1)
    => \A kwds \in AllKwds :
          LET needed == Needed(kwds)
          IN  \A args \in ArgLists :
                 needed <= Len(args)
                 => solve(_tokens, _rules, args, kwds).ret
                      = Pieces_joined(args, kwds, LAMBDA j : Rank(j, kwds))

\* C9, amended: the same, except that a required field named more than
\* once in the rule is filled, at each of its places, with the positional
\* argument its last place takes.
C9_Positional ==
    (HasActive /\ FieldsRegistered /\ Len(Fields) >= 1)
    => \A kwds \in AllKwds :
          LET needed == Needed(kwds)
          IN  \A args \in ArgLists :
                 needed <= Len(args)
                 => solve(_tokens, _rules, args, kwds).ret
                      = Pieces_joined(args, kwds, LAMBDA j : Rank(LastPlace(Fields[j]), kwds))

\* solve has just returned the name of two required fields: the first was
\* named, the second took the first positional argument and the second
\* positional argument was left
C9_Witness ==
    /\ last.op = "solve" /\ last.ret.exc = ""
    /\ HasActive /\ FieldsRegistered /\ Len(Fields) = 2
    /\ Fields[1] # Fields[2]
    /\ Required(Fields[1]) /\ Required(Fields[2])
    /\ Fields[1] \in DOMAIN last.args[2] /\ Fields[2] \notin DOMAIN last.args[2]
    /\ Len(last.args[1]) = 2
    /\ last.ret.val = last.args[2][Fields[1]] \o Str("_") \o last.args[1][1]

----------------------------------------------------------------------------
(* C10: serialization *)

\* d1 == d2 of two dicts: the same pairs, in whatever order
dict_eq(d1, d2) == {d1[i] : i \in 1..Len(d1)} = {d2[i] : i \in 1..Len(d2)}

\* a == b of two mappings data() returned
data_eq(a, b) ==
    /\ DOMAIN a = DOMAIN b
    /\ \A k \in DOMAIN a :
          IF k = "_items" THEN dict_eq(a[k], b[k]) ELSE a[k] = b[k]

\* C10: for every registered token T, Token.from_data(T.data()).data()
\* equals T.data(), and for every registered rule R,
\* Rule.from_data(R.data()).data() equals R.data().
C10_Fidelity ==
    /\ \A n \in DOMAIN _tokens :
          LET d == Serializable_data(_tokens[n])
              r == data_of(Token_from_data(d))
          IN  r.exc = "" /\ data_eq(r.val, d)
    /\ \A n \in DOMAIN _rules :
          _rules[n].cls = "Rule"
          => LET d == Serializable_data(_rules[n])
                 r == data_of(Rule_from_data(d))
             IN  r.exc = "" /\ data_eq(r.val, d)

\* the data of a token with a default and two items, set one by one, has
\* just come back from from_data, next to a rule add_fields gave two fields
C10_Witness ==
    /\ last.op = "Token.from_data" /\ last.ret.exc = ""
    /\ LET T == _tokens[last.args[1]] IN
        /\ T._default # None /\ Len(T._items) = 2
        /\ T._items[1][2] # T._default
        /\ last.ret.val = Serializable_data(T)
    /\ \E n \in RuleNames :
          n \in DOMAIN _rules /\ _rules[n].cls = "Rule" /\ Len(_rules[n]._fields) = 2

----------------------------------------------------------------------------
(* C11: the type guard of from_data *)

\* C11: from_data of one class on the data of a registered object of the
\* other class, and from_data of either class on data without a classname,
\* return None.
C11_TypeGuard ==
    \A obj \in Objects, cls \in {"Token", "Rule"} :
        /\ cls # obj.cls => from_data(cls, Serializable_data(obj)).cls = "NoneType"
        /\ from_data(cls, untagged(obj)).cls = "NoneType"

\* Token.from_data has just returned None for the data of a rule of two
\* fields
C11_Witness ==
    /\ last.op = "from_data" /\ last.args[1] = "Token"
    /\ CLASSNAME \in DOMAIN last.args[2] /\ last.args[2][CLASSNAME] = "Rule"
    /\ Len(last.args[2]._fields) = 2
    /\ last.ret = Return([cls |-> "NoneType"])

----------------------------------------------------------------------------
(* C14 to C17: the registry of rules *)

\* a Rule is registered under the name n
RuleRegistered(rs, n) == n \in DOMAIN rs /\ rs[n].cls = "Rule"

\* the name of what active_rule returns: None when it returns None
ActiveName(rs) ==
    IF active_rule(rs).exc # "" THEN <<"KeyError">> ELSE active_rule(rs).val._name

\* the name of the active rule: None unless active_rule returns a Rule
ActiveRuleName(rs) ==
    IF active_rule(rs).exc = "" /\ active_rule(rs).val.cls = "Rule"
    THEN active_rule(rs).val._name
    ELSE None

\* _rules["_active"] holds None or the name given to an add_rule
PointerToRule(rs) == ACTIVE \in DOMAIN rs /\ rs[ACTIVE]._name # ACTIVE

C15_SetActiveRule_AsStated ==
    [][(last'.op = "set_active_rule" /\ ~RuleRegistered(_rules, last'.args[1]))
       => (last'.ret = Return(FALSE) /\ _rules' = _rules)]_vars

\* C16, as stated: remove_rule(n) returns True exactly when a rule named n
\* was registered; afterwards has_rule(n) is false and every other entry
\* and every token is as before; with no rule named n nothing changes.
\* The same for remove_token.
C16_Remove_AsStated ==
    [][/\ last'.op = "remove_rule"
          => LET n == last'.args[1] IN
             /\ (last'.ret = Return(TRUE)) <=> RuleRegistered(_rules, n)
             /\ ~has_rule(_rules', n)
             /\ \A m \in DOMAIN _rules \ {n} : m \in DOMAIN _rules' /\ _rules'[m] = _rules[m]
             /\ ~RuleRegistered(_rules, n) => _rules' = _rules
             /\ _tokens' = _tokens
       /\ last'.op = "remove_token"
          => LET n == last'.args[1] IN
             /\ (last'.ret = Return(TRUE)) <=> has_token(_tokens, n)
             /\ ~has_token(_tokens', n)
             /\ \A m \in DOMAIN _tokens \ {n} : m \in DOMAIN _tokens' /\ _tokens'[m] = _tokens[m]
             /\ ~has_token(_tokens, n) => _tokens' = _tokens
             /\ _rules' = _rules]_vars

\* C17, as stated: has_rule(n) returns True exactly when a Rule named n
\* is registered; it is never True for the key that holds the active name.
C17_HasRule_AsStated ==
    last.op = "has_rule" => (last.ret.val <=> RuleRegistered(_rules, last.args[1]))

----------------------------------------------------------------------------
(* C20: the default of a token without set_default *)

\* C20, as stated: for a registered token set_default was never called on
\* and that has an item, default() and solve without a key return the
\* present value of the item inserted first.
C20_FirstInsertedDefault_AsStated ==
    \A n \in DOMAIN _tokens :
        (n \notin defaulted /\ Len(_tokens[n]._items) >= 1)
        => LET first == DictGet(_tokens[n]._items, inserted[n][1])
           IN  /\ Token_default(_tokens[n]).ret = first
               /\ Token_solve(_tokens[n], None).ret = first

----------------------------------------------------------------------------
(* C18: load_token and load_rule *)

\* the file exists and holds the JSON document of an object of class cls
HoldsA(fs, filepath, cls) ==
    /\ filepath \in DOMAIN fs
    /\ fs[filepath].parses
    /\ CLASSNAME \in DOMAIN fs[filepath].value
    /\ fs[filepath].value[CLASSNAME] = cls

\* C18, as stated: load_token returns False and leaves the tokens as they
\* were when the file is missing, is no JSON or holds no Token; else it
\* returns True and the token is registered under the name in the file.
\* The same for load_rule.
C18_Load_AsStated ==
    [][/\ last'.op = "load_token"
          => LET filepath == last'.args[1] IN
             IF HoldsA(files, filepath, "Token")
             THEN /\ last'.ret = Return(TRUE)
                  /\ has_token(_tokens', files[filepath].value._name)
             ELSE last'.ret = Return(FALSE) /\ _tokens' = _tokens
       /\ last'.op = "load_rule"
          => LET filepath == last'.args[1] IN
             IF HoldsA(files, filepath, "Rule")
             THEN /\ last'.ret = Return(TRUE)
                  /\ RuleRegistered(_rules', files[filepath].value._name)
             ELSE last'.ret = Return(FALSE) /\ _rules' = _rules]_vars

----------------------------------------------------------------------------
(* C12: a session is recovered *)

\* the outcomes of flush_tokens, flush_rules and load_session on the
\* directory fs, from the registry toks, rs
Reloaded(toks, rs, fs) ==
    load_session(flush_tokens(toks).tokens, flush_rules(rs).rules, fs)

\* C12: whenever a rule is active, save_session into a fresh directory
\* returns, and after flush_rules, flush_tokens and load_session of that
\* directory every token and every rule that was registered is registered
\* again, and active_rule().name() is the name that was active.
C12_SessionRecovery ==
    HasActive =>
        LET saved == save_session(_tokens, _rules, Empty)
        IN  /\ saved.ret = Return(TRUE)
            /\ \A r \in Reloaded(_tokens, _rules, saved.files) :
                  /\ r.ret = Return(TRUE)
                  /\ DOMAIN _tokens \subseteq DOMAIN r.tokens
                  /\ RuleKeys(_rules) \subseteq RuleKeys(r.rules)
                  /\ ActiveRuleName(r.rules) = ActiveRuleName(_rules)

\* C12 happens: a load_session called with nothing registered has
\* returned, the directory holds what save_session writes for the token
\* and the two rules, and the second rule, which naming.conf names, is
\* active again.
C12_Witness ==
    /\ last.op = "load_session"
    /\ last.args = <<{}, {}>>
    /\ last.ret.exc = ""
    /\ DOMAIN files = {TokenFile(S), RuleFile(R1), RuleFile(R2), CONF}
    /\ files[CONF] = json_dump([set_active_rule |-> R2])
    /\ DOMAIN _tokens = {S}
    /\ RuleKeys(_rules) = {R1, R2}
    /\ ActiveRuleName(_rules) = R2

----------------------------------------------------------------------------
(* C19: the keys of naming.conf *)

\* the directory fs with only the key set_active_rule left in naming.conf
Recognized(fs) ==
    IF CONF \in DOMAIN fs /\ fs[CONF].parses
    THEN LET config == fs[CONF].value
         IN  Put(fs, CONF,
                 json_dump([k \in DOMAIN config \cap {"set_active_rule"} |-> config[k]]))
    ELSE fs

\* C19, as stated: a load_session leaves the tokens, the rules and the
\* active rule as it leaves them when naming.conf holds no other key than
\* set_active_rule.
C19_OnlyRecognized_AsStated ==
    [][last'.op = "load_session"
       => \E r \in load_session(_tokens, _rules, Recognized(files)) :
             r.tokens = _tokens' /\ r.rules = _rules']_vars

----------------------------------------------------------------------------
(* C13: the same result again, and after a session is saved and loaded *)

\* two calls end alike: the same exception, or the same value returned
SameResult(a, b) == a.exc = b.exc /\ (a.exc = "" => a.val = b.val)

\* the registry after the call that left the tokens toks, saved into a
\* fresh directory, flushed and loaded: the registries it may come back as
AfterRestart(toks) ==
    LET saved == save_session(toks, _rules, Empty)
    IN  IF saved.ret = Return(TRUE)
        THEN {r \in Reloaded(toks, _rules, saved.files) : r.ret.exc = ""}
        ELSE {}

\* C13, as stated: in every state a solve and a parse return what the
\* same call returns when repeated, and what it returns after
\* save_session, flush_tokens, flush_rules and load_session.
C13_Deterministic_AsStated ==
    /\ \A kwds \in AllKwds, args \in ArgLists :
          LET first == solve(_tokens, _rules, args, kwds)
          IN  /\ SameResult(solve(first.tokens, _rules, args, kwds).ret, first.ret)
              /\ \A r \in AfterRestart(first.tokens) :
                    SameResult(solve(r.tokens, r.rules, args, kwds).ret, first.ret)
    /\ \A name \in Names :
          LET first == parse(_tokens, _rules, name)
          IN  /\ SameResult(parse(first.tokens, _rules, name).ret, first.ret)
              /\ \A r \in AfterRestart(first.tokens) :
                    SameResult(parse(r.tokens, r.rules, name).ret, first.ret)

----------------------------------------------------------------------------
(* C21: is_required *)

\* the values set_default and add_item are given: the emitted values and
\* the empty str
Values == Emitted \cup {<<>>}

\* C21: a registered token is required exactly when set_default was not
\* called on it and it has no items; a token as add_token(name) makes it
\* is required; after a set_default or an add_item a token is not.
C21_Required ==
    \A n \in DOMAIN _tokens :
        LET t == _tokens[n] IN
        /\ Token_is_required(t).ret <=> (n \notin defaulted /\ Len(t._items) = 0)
        /\ Token_is_required(add_token(_tokens, n, <<>>).ret.val).ret
        /\ \A value \in Values :
              /\ ~Token_is_required(Token_set_default(t, value)).ret
              /\ \A key \in Keys, p \in 1..(Len(t._items) + 1) :
                    ~Token_is_required(Token_add_item(t, key, value, p)).ret

\* C21 happens: an add_item has just given an item to a token without a
\* default, and _default still holds None.
C21_Witness ==
    /\ last.op = "Token.add_item"
    /\ S \in DOMAIN _tokens
    /\ S \notin defaulted
    /\ _tokens[S]._default = None
    /\ Len(_tokens[S]._items) = 1
    /\ ~Token_is_required(_tokens[S]).ret

----------------------------------------------------------------------------
(* C22: a field without a token *)

\* C22: whenever a field of the active rule names no registered token,
\* solve and parse end in an error, for every argument; and add_rule
\* returns the rule with its fields whether or not they name tokens.
C22_UnregisteredField ==
    /\ (HasActive /\ ~FieldsRegistered)
       => /\ \A kwds \in AllKwds, args \in ArgLists :
                 solve(_tokens, _rules, args, kwds).ret.exc # ""
          /\ \A name \in Names : parse(_tokens, _rules, name).ret.exc # ""
    /\ \A name \in RuleNames, fields \in FieldLists :
          LET r == add_rule(_rules, name, fields)
          IN  r.ret.exc = "" /\ r.rules[name]._fields = fields

\* C22 happens: solve has just ended in a KeyError under an active rule
\* with two fields, of which one names a registered token and the other
\* names none.
C22_Witness ==
    /\ last.op = "solve" /\ last.ret.exc = "KeyError"
    /\ HasActive
    /\ Len(Fields) = 2
    /\ FieldSet \cap DOMAIN _tokens # {}
    /\ FieldSet \ DOMAIN _tokens # {}

----------------------------------------------------------------------------
(* C23: save_token and save_rule *)

\* the last call returned the value v
Returned(v) == last'.ret.exc = "" /\ last'.ret.val = v

\* C23, as stated: save_token returns False and leaves the files as they
\* were when no token has the name; else it returns True and the file holds
\* the data() of the token.  The same for save_rule and the rules.  Both
\* leave the tokens and the rules as they were.
C23_Save_AsStated ==
    [][/\ last'.op = "save_token"
          => LET name == last'.args[1]
                 filepath == last'.args[2]
             IN  /\ IF name \in DOMAIN _tokens
                    THEN /\ Returned(TRUE)
                         /\ files' = Put(files, filepath,
                                         json_dump(Serializable_data(_tokens[name])))
                    ELSE Returned(FALSE) /\ files' = files
                 /\ UNCHANGED <<_tokens, _rules>>
       /\ last'.op = "save_rule"
          => LET name == last'.args[1]
                 filepath == last'.args[2]
             IN  /\ IF RuleRegistered(_rules, name)
                    THEN /\ Returned(TRUE)
                         /\ files' = Put(files, filepath,
                                         json_dump(Serializable_data(_rules[name])))
                    ELSE Returned(FALSE) /\ files' = files
                 /\ UNCHANGED <<_tokens, _rules>>]_vars

----------------------------------------------------------------------------
(* C24: the name of the active rule *)

\* _rules["_active"] holds None or the name of a registered Rule
ActiveRegistered(rs) ==
    \/ rs[ACTIVE].cls = "NoneType"
    \/ rs[ACTIVE].cls = "str" /\ RuleRegistered(rs, rs[ACTIVE]._name)

\* C24, as stated: after every call the recorded name of the active rule
\* is unset or names a registered rule, and a load_rule leaves the active
\* rule what it was.
C24_ActiveRegistered_AsStated ==
    [][/\ ActiveRegistered(_rules')
       /\ last'.op = "load_rule"
          => ActiveRuleName(_rules') = ActiveRuleName(_rules)]_vars

----------------------------------------------------------------------------
(* C25: the calls that read *)

\* the data() of every token and of every rule
AllData(toks, rs) ==
    [tokens |-> [n \in DOMAIN toks |-> Serializable_data(toks[n])],
     rules |-> [n \in RuleKeys(rs) |-> Serializable_data(rs[n])]]

\* C25, as stated: a solve and a parse leave the data() of every token and
\* rule and the active rule as they were, and save_session into a fresh
\* directory writes after the call what it would have written before it.
C25_ReadsArePure_AsStated ==
    [][last'.op \in {"solve", "parse"}
       => /\ AllData(_tokens', _rules') = AllData(_tokens, _rules)
          /\ ActiveName(_rules') = ActiveName(_rules)
          /\ save_session(_tokens', _rules', Empty).files
                = save_session(_tokens, _rules, Empty).files]_vars

----------------------------------------------------------------------------
(* C26: from_data and the mapping it is given *)

\* C26, as stated: after cls.from_data(data) the mapping data is what it
\* was, and a second cls.from_data(data) gives an object with the data()
\* of the first.
C26_FromDataKeepsMapping_AsStated ==
    [][last'.op = "from_data, from_data"
       => LET cls == last'.args[1]
              data == last'.args[2]
          IN  /\ last'.args[3] = data
              /\ SameResult(last'.ret, data_of(from_data(cls, data)))]_vars

----------------------------------------------------------------------------
(* C29: save_session and the registry *)

\* C29: a save_session, whether it returns or raises, leaves the tokens
\* with their defaults and items, the rules with their fields, and the
\* name of the active rule as they were.
C29_SaveKeepsRegistry ==
    [][last'.op = "save_session" => _tokens' = _tokens /\ _rules' = _rules]_vars

\* C29 happens: save_session has returned with a token registered that
\* has items and no stored default, two rules, and the second one active;
\* the token's file holds None for its default.
C29_Witness ==
    /\ last.op = "save_session" /\ last.ret.exc = ""
    /\ S \in DOMAIN _tokens
    /\ Len(_tokens[S]._items) = 2 /\ _tokens[S]._default = None
    /\ RuleKeys(_rules) = {R1, R2}
    /\ ActiveRuleName(_rules) = R2
    /\ files[TokenFile(S)].value._default = None
    /\ files[CONF].value.set_active_rule = R2

----------------------------------------------------------------------------
(* C27: a session comes back as it was saved *)

\* what a token holds, whatever the order of its items
TokenContent(t) ==
    [_name |-> t._name, _default |-> t._default,
     _items |-> {t._items[i] : i \in 1..Len(t._items)}]

\* the tokens and the rules of a registry
Content(toks, rs) ==
    [tokens |-> [n \in DOMAIN toks |-> TokenContent(toks[n])],
     rules |-> [n \in RuleKeys(rs) |-> rs[n]]]

\* C27, as stated: when save_session into the directory as it is, with
\* whatever earlier calls of save_session left in it, returns, then
\* flush_tokens, flush_rules and load_session give back exactly the tokens
\* and the rules that were registered, with their defaults, items and
\* fields.
C27_SessionExact_AsStated ==
    LET saved == save_session(_tokens, _rules, files)
    IN  saved.ret.exc = ""
        => \A r \in Reloaded(_tokens, _rules, saved.files) :
              r.ret.exc = "" /\ Content(r.tokens, r.rules) = Content(_tokens, _rules)

----------------------------------------------------------------------------
(* C28: the order in which save_session writes *)

\* the files a save_session at the position in last has written
Written == {last.args[1][i] : i \in 1..last.args[2]}

\* C28: while save_session runs and when it has ended, the files it has
\* written hold what it writes for them, it has written no rule file
\* before a token file it writes, and once it has written naming.conf it
\* has written the file of every token and of every rule.
C28_ConfLast ==
    last.op \in {RUNNING, "save_session"}
    => LET writes == last.args[1] IN
       /\ \A f \in Written :
             f \in DOMAIN files /\ files[f] = SaveDocument(_tokens, _rules, f)
       /\ \A i, j \in 1..Len(writes) :
             (writes[i][2] = "rule" /\ writes[j][2] = "token") => j < i
       /\ CONF \in Written
          => /\ \A n \in DOMAIN _tokens : TokenFile(n) \in Written
             /\ \A n \in RuleKeys(_rules) : RuleFile(n) \in Written

\* C28 happens: a save_session of a token and two rules has written the
\* token file and one rule file, and neither the other rule file nor
\* naming.conf is in the directory yet.
C28_Witness ==
    /\ last.op = RUNNING
    /\ DOMAIN _tokens = {S} /\ RuleKeys(_rules) = {R1, R2}
    /\ Len(last.args[1]) = 4
    /\ Written = {TokenFile(S), RuleFile(R2)}
    /\ DOMAIN files = Written

----------------------------------------------------------------------------
(* C30: the calls on tokens and the calls on rules *)

TokenCalls == {"add_token", "remove_token", "flush_tokens", "load_token"}

RuleCalls == {"add_rule", "remove_rule", "flush_rules", "set_active_rule", "load_rule"}

\* C30: add_token, remove_token, flush_tokens and load_token leave _rules,
\* and with it the rules, their fields and the active rule, as it was;
\* add_rule, remove_rule, flush_rules, set_active_rule and load_rule leave
\* _tokens as it was.
C30_Independent ==
    [][/\ last'.op \in TokenCalls => _rules' = _rules
       /\ last'.op \in RuleCalls => _tokens' = _tokens]_vars

\* C30 happens: a load_token has returned True and a token is registered,
\* with two rules registered and the first one active.
C30_Witness ==
    /\ last.op = "load_token" /\ last.ret.exc = "" /\ last.ret.val
    /\ DOMAIN _tokens = {S}
    /\ Len(_tokens[S]._items) = 2
    /\ RuleKeys(_rules) = {R1, R2}
    /\ ActiveRuleName(_rules) = R1

====
